---- MODULE Spec2Model ----
(***************************************************************************)
(* Coordinate calibration (calibration.py) and the vision fallback tap     *)
(* (main.py) of eyemcp.                                                    *)
(*                                                                         *)
(* Numbers.  Python floats are modelled by exact rationals <<n, d>> in     *)
(* lowest terms with d > 0.  A confidence is held in tenths (7 stands for  *)
(* 0.7), so that the comparison with the threshold is exact.               *)
(***************************************************************************)
EXTENDS Integers, Sequences, FiniteSets, TLC

(***************************************************************************)
(* Bounds of the model.                                                    *)
(***************************************************************************)
\* longest list of reference points handed to one calibration pass
MaxPoints == 3

\* the coordinates the vision lookup may report
PerceivedCoords == {0, 1}

\* the confidences (in tenths) the vision lookup may report: below, at and
\* above the threshold of a calibration pass
Confidences == {6, 7, 9}

\* the coroutines that can run calculate_scaling_factors
Passes == {"p1", "p2"}

\* reference points, as load_calibration_data would return them; a pass is
\* handed a prefix of this table
ReferenceTable ==
    << [description |-> "clock",    x |-> 2, y |-> 1],
       [description |-> "phone",    x |-> 1, y |-> 2],
       [description |-> "camera",   x |-> 4, y |-> 0],
       [description |-> "browser",  x |-> 1, y |-> 1],
       [description |-> "settings", x |-> 3, y |-> 3] >>

PointLists == { SubSeq(ReferenceTable, 1, n) : n \in 0..MaxPoints }

(***************************************************************************)
(* Exact rational arithmetic standing for Python's float arithmetic.       *)
(***************************************************************************)
Abs(n) == IF n < 0 THEN -n ELSE n

RECURSIVE GCD(_, _)
GCD(a, b) == IF b = 0 THEN a ELSE GCD(b, a % b)

\* the rational n / d, d # 0, in lowest terms with a positive denominator
Rat(n, d) ==
    LET g == GCD(Abs(n), Abs(d))
        s == IF d < 0 THEN -1 ELSE 1
    IN  << (s * n) \div g, (s * d) \div g >>

IntToRat(n) == << n, 1 >>

\* over the least common denominator, to keep the numbers small
RatAdd(a, b) ==
    LET g == GCD(a[2], b[2])
    IN  Rat(a[1] * (b[2] \div g) + b[1] * (a[2] \div g), (a[2] \div g) * b[2])

RatMul(a, b) == Rat(a[1] * b[1], a[2] * b[2])

RatLess(a, b) == a[1] * b[2] < b[1] * a[2]

One == IntToRat(1)

Zero == IntToRat(0)

(***************************************************************************)
(* State.                                                                  *)
(***************************************************************************)
VARIABLES
    \* calibration.py module globals (_scaling_x, _scaling_y, _is_calibrated)
    scaling_x, scaling_y, calibrated,
    \* calculate_scaling_factors, one frame per coroutine
    pc,                  \* where the coroutine is suspended
    calibration_points,  \* its argument
    idx,                 \* position of the for loop in calibration_points
    x_ratios, y_ratios, successful_points,
    result,              \* what the call returned or raised
    \* what a pass did with its collaborators, in order: each call as it is
    \* issued, and how go_to_home_screen and the sleep ended; and what
    \* find_element_func answered to each lookup that has completed
    trace, answers,
    \* ScalingState as it was when the pass was called
    pre,
    \* main.tap_element_fallback
    tap_pc, element_info, adb_tap, tap_result,
    \* a reader of the scaling state: what its last read returned
    observed,
    \* a caller of apply_scaling: its last arguments and what it got back
    scale_in, scaled,
    \* vision.find_element_coordinates_by_description: the model's reply and
    \* the queried description of the last lookup and what the lookup
    \* returned or raised
    reply, queried, located,
    \* calibration.load_calibration_data: the file of the last call and what
    \* the call returned or raised
    source, loaded,
    \* main.tap_screen and main.custom_swipe called as tools: where the call
    \* stands, the call, the adb commands it has spawned, and what it
    \* returned or raised
    tool_pc, tool_call, commands, tool_outcome

scalingVars == << scaling_x, scaling_y, calibrated >>

passVars == << pc, calibration_points, idx, x_ratios, y_ratios,
               successful_points, result, trace, answers, pre >>

tapVars == << tap_pc, element_info, adb_tap, tap_result >>

readVars == << observed, scale_in, scaled >>

locVars == << reply, queried, located >>

loadVars == << source, loaded >>

toolVars == << tool_pc, tool_call, commands, tool_outcome >>

vars == << scaling_x, scaling_y, calibrated, pc, calibration_points, idx,
           x_ratios, y_ratios, successful_points, result, trace, answers, pre,
           tap_pc, element_info, adb_tap, tap_result,
           observed, scale_in, scaled,
           reply, queried, located,
           source, loaded,
           tool_pc, tool_call, commands, tool_outcome >>

(***************************************************************************)
(* calibration.py: readers of the scaling state.                           *)
(***************************************************************************)
get_scaling_factors == << scaling_x, scaling_y >>

is_calibrated == calibrated

ScalingState == [scale_x |-> scaling_x, scale_y |-> scaling_y,
                 calibrated |-> calibrated]

\* Mutant: round() is taken for the ceiling.
RoundUpward(q) ==
    LET lo == q[1] \div q[2]
    IN  IF lo * q[2] = q[1] THEN lo ELSE lo + 1

\* Python's round(): to the nearest integer, a tie going to the even one
Round(q) ==
    LET lo  == q[1] \div q[2]
        rem == q[1] - lo * q[2]
    IN  IF 2 * rem < q[2] THEN lo
        ELSE IF 2 * rem > q[2] THEN lo + 1
        ELSE IF lo % 2 = 0 THEN lo ELSE lo + 1

\* the 0.00001 added before rounding
Epsilon == Rat(1, 100000)

ScaleCoord(v, scale) == Round(RatAdd(RatMul(v, scale), Epsilon))

\* x, y are rationals (the function takes floats)
apply_scaling(x, y) == << ScaleCoord(x, scaling_x), ScaleCoord(y, scaling_y) >>

(***************************************************************************)
(* The lookup capability handed to a pass (find_element_func), and the     *)
(* locator main.py calls: each call either raises or returns an            *)
(* element_info.                                                           *)
(***************************************************************************)
LookupRaise == [raised |-> TRUE, x |-> 0, y |-> 0, confidence |-> 0]

Located(x, y, confidence) ==
    [raised |-> FALSE, x |-> x, y |-> y, confidence |-> confidence]

\* a raise, every perceived coordinate at confidence 0.7, and every
\* confidence at the perceived coordinate (1, 1)
LookupOutcomes ==
    {LookupRaise}
    \cup { Located(x, y, 7) : x \in PerceivedCoords, y \in PerceivedCoords }
    \cup { Located(1, 1, c) : c \in Confidences }

(***************************************************************************)
(* calibration.py: calculate_scaling_factors.                              *)
(***************************************************************************)
\* 0.7, in tenths
ConfThreshold == 7

MinPoints == 2

\* Mutant: the threshold itself is refused.
AcceptsAbove(confidence) == confidence > ConfThreshold

Accepts(confidence) == confidence >= ConfThreshold

\* Mutant: one test guards both axes, a zero on either drops both ratios.
PointStepBothOrNone(acc, point, info) ==
    IF info.raised THEN acc
    ELSE IF ~Accepts(info.confidence) THEN acc
    ELSE [ x_ratios |-> IF info.x # 0 /\ info.y # 0
                        THEN Append(acc.x_ratios, Rat(point.x, info.x))
                        ELSE acc.x_ratios,
           y_ratios |-> IF info.x # 0 /\ info.y # 0
                        THEN Append(acc.y_ratios, Rat(point.y, info.y))
                        ELSE acc.y_ratios,
           successful_points |-> acc.successful_points + 1 ]

\* One iteration of the loop once find_element_func has answered.  The
\* logger.info call of an accepted point formats x_ratio and y_ratio; when
\* one of them was never assigned the UnboundLocalError is raised after
\* the appends and the increment, and is swallowed by the except clause, so
\* the frame is left as by a normal iteration.
PointStep(acc, point, info) ==
    IF info.raised THEN acc
    ELSE IF ~Accepts(info.confidence) THEN acc
    ELSE [ x_ratios |-> IF info.x # 0
                        THEN Append(acc.x_ratios, Rat(point.x, info.x))
                        ELSE acc.x_ratios,
           y_ratios |-> IF info.y # 0
                        THEN Append(acc.y_ratios, Rat(point.y, info.y))
                        ELSE acc.y_ratios,
           successful_points |-> acc.successful_points + 1 ]

RECURSIVE SumRat(_)
SumRat(ratios) ==
    IF Len(ratios) = 0 THEN Zero
    ELSE RatAdd(Head(ratios), SumRat(Tail(ratios)))

\* Mutant: a single ratio is taken for the mean.
AverageIsFirst(ratios) == Head(ratios)

\* sum(ratios) / len(ratios); the caller has excluded the empty list
Average(ratios) == RatMul(SumRat(ratios), Rat(1, Len(ratios)))

\* the condition of the "unusual scaling factors" warning
Unusual(avg_x, avg_y) ==
    \/ RatLess(avg_x, Rat(1, 2)) \/ RatLess(Rat(2, 1), avg_x)
    \/ RatLess(avg_y, Rat(1, 2)) \/ RatLess(Rat(2, 1), avg_y)

NoResult == [kind |-> "none", sx |-> Zero, sy |-> Zero]

Raised(kind) == [kind |-> kind, sx |-> Zero, sy |-> Zero]

\* Mutant: one accepted point is taken to be enough.
OutcomeOnePointEnough(xr, yr, sp) ==
    IF sp < 1 THEN Raised("ValueError")
    ELSE IF Len(xr) = 0 \/ Len(yr) = 0 THEN Raised("ZeroDivisionError")
    ELSE [kind |-> "pair", sx |-> Average(xr), sy |-> Average(yr)]

\* Mutant: means outside [0.5, 2.0] are rejected instead of warned about.
OutcomeRejectsUnusual(xr, yr, sp) ==
    IF sp < MinPoints THEN Raised("ValueError")
    ELSE IF Len(xr) = 0 \/ Len(yr) = 0 THEN Raised("ZeroDivisionError")
    ELSE IF Unusual(Average(xr), Average(yr)) THEN Raised("ValueError")
    ELSE [kind |-> "pair", sx |-> Average(xr), sy |-> Average(yr)]

\* What the code after the loop does with the frame: the ValueError of too
\* few points, the ZeroDivisionError of averaging an empty list, or the
\* pair of means (whether unusual or not).
\* Mutant: the new averages are applied on top of the scale in force.
OutcomeComposed(xr, yr, sp) ==
    IF sp < MinPoints THEN Raised("ValueError")
    ELSE IF Len(xr) = 0 \/ Len(yr) = 0 THEN Raised("ZeroDivisionError")
    ELSE [kind |-> "pair", sx |-> RatMul(Average(xr), scaling_x),
                           sy |-> RatMul(Average(yr), scaling_y)]

Outcome(xr, yr, sp) ==
    IF sp < MinPoints THEN Raised("ValueError")
    ELSE IF Len(xr) = 0 \/ Len(yr) = 0 THEN Raised("ZeroDivisionError")
    ELSE [kind |-> "pair", sx |-> Average(xr), sy |-> Average(yr)]

\* Mutant: the flag is set outside the success path.
InstalledFlagAlways(r) ==
    IF r.kind = "pair"
    THEN [scale_x |-> r.sx, scale_y |-> r.sy, calibrated |-> TRUE]
    ELSE [scale_x |-> scaling_x, scale_y |-> scaling_y, calibrated |-> TRUE]

\* Mutant: the y scale is left for a later step.
InstalledXFirst(r) ==
    IF r.kind = "pair"
    THEN [scale_x |-> r.sx, scale_y |-> scaling_y, calibrated |-> TRUE]
    ELSE ScalingState

\* Mutant: a pass that fails puts the globals back to identity.
InstalledResetsOnFailure(r) ==
    IF r.kind = "pair"
    THEN [scale_x |-> r.sx, scale_y |-> r.sy, calibrated |-> TRUE]
    ELSE [scale_x |-> One, scale_y |-> One, calibrated |-> FALSE]

\* Mutant: a calibrated state is not replaced.
InstalledOnce(r) ==
    IF r.kind = "pair" /\ ~calibrated
    THEN [scale_x |-> r.sx, scale_y |-> r.sy, calibrated |-> TRUE]
    ELSE ScalingState

\* The globals after the code that follows the loop: written only when the
\* pair was computed, all three by consecutive assignments.
Installed(r) ==
    IF r.kind = "pair"
    THEN [scale_x |-> r.sx, scale_y |-> r.sy, calibrated |-> TRUE]
    ELSE ScalingState

EmptyFrame == [x_ratios |-> << >>, y_ratios |-> << >>, successful_points |-> 0]

\* the frame after the loop has visited points, answered by infos
RECURSIVE SweepFrom(_, _, _)
SweepFrom(acc, points, infos) ==
    IF Len(points) = 0 THEN acc
    ELSE SweepFrom(PointStep(acc, Head(points), Head(infos)),
                   Tail(points), Tail(infos))

\* what calculate_scaling_factors returns or raises for points answered by
\* infos, once navigation has succeeded
ScaleFor(points, infos) ==
    LET acc == SweepFrom(EmptyFrame, points, infos)
    IN  Outcome(acc.x_ratios, acc.y_ratios, acc.successful_points)

\* The end of a pass: runs with no suspension from the end of the loop.
Conclude(p, xr, yr, sp) ==
    LET r == Outcome(xr, yr, sp)
        g == Installed(r)
    IN  /\ result' = [result EXCEPT ![p] = r]
        /\ pc' = [pc EXCEPT ![p] = IF r.kind = "pair" THEN "returned"
                                                       ELSE "raised"]
        /\ scaling_x' = g.scale_x
        /\ scaling_y' = g.scale_y
        /\ calibrated' = g.calibrated

Call(ev, description) == [ev |-> ev, description |-> description]

FindCall(point) == Call("find_element", point.description)

IdentityState == [scale_x |-> One, scale_y |-> One, calibrated |-> FALSE]

\* Mutant: a pass starts by putting the globals back to identity.
CalibrateResets(p, points) ==
    /\ pc[p] = "idle"
    /\ pc' = [pc EXCEPT ![p] = "home"]
    /\ calibration_points' = [calibration_points EXCEPT ![p] = points]
    /\ trace' = [trace EXCEPT ![p] = << Call("go_to_home_screen", "") >>]
    /\ pre' = [pre EXCEPT ![p] = ScalingState]
    /\ scaling_x' = One
    /\ scaling_y' = One
    /\ calibrated' = FALSE
    /\ UNCHANGED << idx, x_ratios, y_ratios, successful_points,
                    result, answers, tapVars, readVars, locVars, loadVars, toolVars >>

\* calculate_scaling_factors is called: the coroutine runs up to the
\* subprocess await inside go_to_home_screen.
Calibrate(p, points) ==
    /\ pc[p] = "idle"
    /\ pc' = [pc EXCEPT ![p] = "home"]
    /\ calibration_points' = [calibration_points EXCEPT ![p] = points]
    /\ trace' = [trace EXCEPT ![p] = << Call("go_to_home_screen", "") >>]
    /\ pre' = [pre EXCEPT ![p] = ScalingState]
    /\ UNCHANGED << scalingVars, idx, x_ratios, y_ratios, successful_points,
                    result, answers, tapVars, readVars, locVars, loadVars, toolVars >>

\* Mutant: the exit code of the adb process is not looked at.
HomeDoneIgnoresExit(p, ok) ==
    /\ pc[p] = "home"
    /\ pc' = [pc EXCEPT ![p] = "sleep"]
    /\ trace' = [trace EXCEPT ![p] =
          @ \o << Call(IF ok THEN "home_ok" ELSE "home_failed", ""),
                  Call("sleep", "") >>]
    /\ UNCHANGED << scalingVars, calibration_points, idx, x_ratios, y_ratios,
                    successful_points, result, answers, pre, tapVars, readVars, locVars, loadVars, toolVars >>

\* The adb process has exited: a nonzero exit code raises RuntimeError out
\* of the pass, otherwise the pass goes on to asyncio.sleep(1).
HomeDone(p, ok) ==
    /\ pc[p] = "home"
    /\ IF ok
       THEN /\ pc' = [pc EXCEPT ![p] = "sleep"]
            /\ trace' = [trace EXCEPT ![p] =
                            @ \o << Call("home_ok", ""), Call("sleep", "") >>]
            /\ UNCHANGED result
       ELSE /\ pc' = [pc EXCEPT ![p] = "raised"]
            /\ result' = [result EXCEPT ![p] = Raised("RuntimeError")]
            /\ trace' = [trace EXCEPT ![p] = Append(@, Call("home_failed", ""))]
    /\ UNCHANGED << scalingVars, calibration_points, idx, x_ratios, y_ratios,
                    successful_points, answers, pre, tapVars, readVars, locVars, loadVars, toolVars >>

\* The sleep is over: the accumulators are initialised and the loop is
\* entered; with no point to visit the pass ends at once.
SleepDone(p) ==
    /\ pc[p] = "sleep"
    /\ x_ratios' = [x_ratios EXCEPT ![p] = << >>]
    /\ y_ratios' = [y_ratios EXCEPT ![p] = << >>]
    /\ successful_points' = [successful_points EXCEPT ![p] = 0]
    /\ IF Len(calibration_points[p]) = 0
       THEN /\ Conclude(p, << >>, << >>, 0)
            /\ trace' = [trace EXCEPT ![p] = Append(@, Call("awake", ""))]
            /\ UNCHANGED idx
       ELSE /\ idx' = [idx EXCEPT ![p] = 1]
            /\ pc' = [pc EXCEPT ![p] = "locate"]
            /\ trace' = [trace EXCEPT ![p] =
                            @ \o << Call("awake", ""),
                                    FindCall(calibration_points[p][1]) >>]
            /\ UNCHANGED << scalingVars, result >>
    /\ UNCHANGED << calibration_points, answers, pre, tapVars, readVars, locVars, loadVars, toolVars >>

\* Mutant: the loop has no try/except, a raising lookup ends the pass.
LocateDoneAborts(p, info) ==
    /\ pc[p] = "locate"
    /\ LET acc == PointStep([x_ratios |-> x_ratios[p],
                             y_ratios |-> y_ratios[p],
                             successful_points |-> successful_points[p]],
                            calibration_points[p][idx[p]], info)
       IN  /\ x_ratios' = [x_ratios EXCEPT ![p] = acc.x_ratios]
           /\ y_ratios' = [y_ratios EXCEPT ![p] = acc.y_ratios]
           /\ successful_points' =
                  [successful_points EXCEPT ![p] = acc.successful_points]
           /\ answers' = [answers EXCEPT ![p] = Append(@, info)]
           /\ IF info.raised
              THEN /\ pc' = [pc EXCEPT ![p] = "raised"]
                   /\ result' = [result EXCEPT ![p] = Raised("ValueError")]
                   /\ UNCHANGED << scalingVars, idx, trace >>
              ELSE IF idx[p] < Len(calibration_points[p])
              THEN /\ idx' = [idx EXCEPT ![p] = @ + 1]
                   /\ trace' = [trace EXCEPT ![p] =
                         Append(@, FindCall(calibration_points[p][idx[p] + 1]))]
                   /\ UNCHANGED << scalingVars, pc, result >>
              ELSE /\ Conclude(p, acc.x_ratios, acc.y_ratios,
                               acc.successful_points)
                   /\ UNCHANGED << idx, trace >>
    /\ UNCHANGED << calibration_points, pre, tapVars, readVars, locVars, loadVars, toolVars >>

\* find_element_func has answered for point idx: the body of the loop runs,
\* then either the next lookup is awaited or the pass ends.
LocateDone(p, info) ==
    /\ pc[p] = "locate"
    /\ LET acc == PointStep([x_ratios |-> x_ratios[p],
                             y_ratios |-> y_ratios[p],
                             successful_points |-> successful_points[p]],
                            calibration_points[p][idx[p]], info)
       IN  /\ x_ratios' = [x_ratios EXCEPT ![p] = acc.x_ratios]
           /\ y_ratios' = [y_ratios EXCEPT ![p] = acc.y_ratios]
           /\ successful_points' =
                  [successful_points EXCEPT ![p] = acc.successful_points]
           /\ answers' = [answers EXCEPT ![p] = Append(@, info)]
           /\ IF idx[p] < Len(calibration_points[p])
              THEN /\ idx' = [idx EXCEPT ![p] = @ + 1]
                   /\ trace' = [trace EXCEPT ![p] =
                         Append(@, FindCall(calibration_points[p][idx[p] + 1]))]
                   /\ UNCHANGED << scalingVars, pc, result >>
              ELSE /\ Conclude(p, acc.x_ratios, acc.y_ratios,
                               acc.successful_points)
                   /\ UNCHANGED << idx, trace >>
    /\ UNCHANGED << calibration_points, pre, tapVars, readVars, locVars, loadVars, toolVars >>

\* The caller has taken the value or the exception: the frame is gone.
Finish(p) ==
    /\ pc[p] \in {"returned", "raised"}
    /\ pc' = [pc EXCEPT ![p] = "idle"]
    /\ calibration_points' = [calibration_points EXCEPT ![p] = << >>]
    /\ idx' = [idx EXCEPT ![p] = 0]
    /\ x_ratios' = [x_ratios EXCEPT ![p] = << >>]
    /\ y_ratios' = [y_ratios EXCEPT ![p] = << >>]
    /\ successful_points' = [successful_points EXCEPT ![p] = 0]
    /\ result' = [result EXCEPT ![p] = NoResult]
    /\ trace' = [trace EXCEPT ![p] = << >>]
    /\ answers' = [answers EXCEPT ![p] = << >>]
    /\ pre' = [pre EXCEPT ![p] = IdentityState]
    /\ UNCHANGED << scalingVars, tapVars, readVars, locVars, loadVars, toolVars >>

(***************************************************************************)
(* main.py: tap_element_fallback and the tap_screen it calls.              *)
(***************************************************************************)
NoInfo == [raised |-> FALSE, x |-> 0, y |-> 0, confidence |-> 0]

NoTap == << >>

\* Mutant: the two coordinates are handed over in the wrong order.
TapTargetSwapped(info) == << info.y, info.x >>

\* the coordinates tap_element_fallback hands to tap_screen
TapTarget(info) == << info.x, info.y >>

\* tap_screen's validation
TapScreenRejects(x, y) == x < 0 \/ y < 0

\* tap_element_fallback is called and awaits take_android_screenshot
TapElementFallback ==
    /\ tap_pc = "idle"
    /\ tap_pc' = "screenshot"
    /\ UNCHANGED << scalingVars, passVars, readVars, locVars, loadVars, toolVars, element_info, adb_tap, tap_result >>

\* The screenshot process has exited.  A failure raises RuntimeError;
\* otherwise the locator runs (synchronously) and raises or answers, and
\* tap_screen is called with the target and spawns the adb tap.
ScreenshotDone(ok, info) ==
    /\ tap_pc = "screenshot"
    /\ IF ~ok
       THEN /\ tap_pc' = "raised"
            /\ tap_result' = "RuntimeError"
            /\ UNCHANGED << element_info, adb_tap >>
       ELSE IF info.raised
       THEN /\ tap_pc' = "raised"
            /\ tap_result' = "ValueError"
            /\ UNCHANGED << element_info, adb_tap >>
       ELSE LET t == TapTarget(info)
            IN  /\ element_info' = info
                /\ IF TapScreenRejects(t[1], t[2])
                   THEN /\ tap_pc' = "raised"
                        /\ tap_result' = "ValueError"
                        /\ UNCHANGED adb_tap
                   ELSE /\ tap_pc' = "tap"
                        /\ adb_tap' = t
                        /\ UNCHANGED tap_result
    /\ UNCHANGED << scalingVars, passVars, readVars, locVars, loadVars, toolVars >>

\* The adb tap process has exited.
TapDone(ok) ==
    /\ tap_pc = "tap"
    /\ tap_pc' = IF ok THEN "returned" ELSE "raised"
    /\ tap_result' = IF ok THEN "Tapped" ELSE "RuntimeError"
    /\ UNCHANGED << scalingVars, passVars, readVars, locVars, loadVars, toolVars, element_info, adb_tap >>

\* The caller has taken the value or the exception.
TapFinish ==
    /\ tap_pc \in {"returned", "raised"}
    /\ tap_pc' = "idle"
    /\ element_info' = NoInfo
    /\ adb_tap' = NoTap
    /\ tap_result' = "none"
    /\ UNCHANGED << scalingVars, passVars, readVars, locVars, loadVars, toolVars >>

(***************************************************************************)
(* A reader of the scaling state.  is_calibrated and get_scaling_factors   *)
(* are plain functions: a caller that calls them one after the other, as   *)
(* eval_calibration.evaluate_calibration does, is not suspended between.   *)
(***************************************************************************)
NoRead == [scale_x |-> Zero, scale_y |-> Zero, calibrated |-> FALSE]

Read ==
    /\ observed' = [scale_x |-> get_scaling_factors[1],
                    scale_y |-> get_scaling_factors[2],
                    calibrated |-> is_calibrated]
    /\ UNCHANGED << scalingVars, passVars, tapVars, scale_in, scaled, locVars, loadVars, toolVars >>

(***************************************************************************)
(* A caller of apply_scaling.  The function takes floats: the coordinates  *)
(* a caller passes are drawn from integers, halves, and values a little    *)
(* under a half.                                                           *)
(***************************************************************************)
\* no coordinates passed, none returned
NoCoords == << >>

ScaleInputs ==
    { IntToRat(n) : n \in {0, 1, 2, 100, 200} }
    \cup { Rat(201, 2), Rat(2007, 10), Rat(3, 2), Rat(5, 2), Rat(7, 5),
           Rat(299999, 200000) }

\* the state at import, and states a calibration has installed
ScalingStates ==
    { IdentityState,
      [scale_x |-> Rat(6, 5), scale_y |-> Rat(4, 5), calibrated |-> TRUE],
      [scale_x |-> Rat(3, 2), scale_y |-> Rat(1, 2), calibrated |-> TRUE] }

ApplyScaling(x, y) ==
    /\ scale_in' = << x, y >>
    /\ scaled' = apply_scaling(x, y)
    /\ UNCHANGED << scalingVars, passVars, tapVars, observed, locVars, loadVars, toolVars >>

(***************************************************************************)
(* vision.py: find_element_coordinates_by_description.                     *)
(*                                                                         *)
(* A lookup sends the screenshot and the description to the model and      *)
(* normalises the reply.  What comes back from the model is either an      *)
(* exception out of the client, or the reply's content: a JSON object, a   *)
(* JSON number, or a text that is not JSON.  A text is a sequence of       *)
(* tokens, white space allowed between any two of them; a number in a text *)
(* is the sequence of its characters.                                      *)
(***************************************************************************)
Digits == {"0", "1", "2", "3", "4", "5", "6", "7", "8", "9"}

DigitValue ==
    [c \in Digits |->
        CASE c = "0" -> 0 [] c = "1" -> 1 [] c = "2" -> 2 [] c = "3" -> 3
          [] c = "4" -> 4 [] c = "5" -> 5 [] c = "6" -> 6 [] c = "7" -> 7
          [] c = "8" -> 8 [] c = "9" -> 9]

RECURSIVE DigitsValue(_)
DigitsValue(chars) ==
    IF chars = << >> THEN 0
    ELSE DigitsValue(SubSeq(chars, 1, Len(chars) - 1)) * 10
         + DigitValue[chars[Len(chars)]]

RECURSIVE Pow10(_)
Pow10(k) == IF k = 0 THEN 1 ELSE 10 * Pow10(k - 1)

\* the longest run of digits chars starts with: what \d+ takes there
RECURSIVE DigitRun(_)
DigitRun(chars) ==
    IF chars = << >> \/ Head(chars) \notin Digits THEN << >>
    ELSE << Head(chars) >> \o DigitRun(Tail(chars))

AllDigits(chars) == chars # << >> /\ DigitRun(chars) = chars

\* digits, then possibly a point and digits
IsDecimal(chars) ==
    LET ip   == DigitRun(chars)
        rest == SubSeq(chars, Len(ip) + 1, Len(chars))
    IN  /\ ip # << >>
        /\ \/ rest = << >>
           \/ Head(rest) = "." /\ DigitRun(Tail(rest)) = Tail(rest)

DecimalValue(chars) ==
    LET ip   == DigitRun(chars)
        rest == SubSeq(chars, Len(ip) + 1, Len(chars))
        fp   == IF rest = << >> THEN << >> ELSE Tail(rest)
    IN  RatAdd(IntToRat(DigitsValue(ip)), Rat(DigitsValue(fp), Pow10(Len(fp))))

Unsigned(chars) ==
    IF chars # << >> /\ Head(chars) = "-" THEN Tail(chars) ELSE chars

Signed(chars, q) ==
    IF chars # << >> /\ Head(chars) = "-" THEN << 0 - q[1], q[2] >> ELSE q

(***************************************************************************)
(* The values of a parsed JSON document and of the result dictionary.      *)
(***************************************************************************)
\* the key is not in the dictionary
Absent  == [t |-> "absent", q |-> Zero, s |-> << >>]

JNull   == [t |-> "null", q |-> Zero, s |-> << >>]

JInt(n) == [t |-> "int", q |-> IntToRat(n), s |-> << >>]

JFloat(q) == [t |-> "float", q |-> q, s |-> << >>]

\* a string, by its characters or by its words
JStr(s) == [t |-> "str", q |-> Zero, s |-> s]

\* a dictionary by the keys the function looks at
Dict(error, x, y, confidence, element_description) ==
    [error |-> error, x |-> x, y |-> y, confidence |-> confidence,
     element_description |-> element_description]

EmptyDict == Dict(Absent, Absent, Absent, Absent, Absent)

(***************************************************************************)
(* What a call returns or raises.                                          *)
(***************************************************************************)
Returns(dict) ==
    [kind |-> "result", type |-> "", message |-> << >>, result |-> dict]

Raises(type, message) ==
    [kind |-> "error", type |-> type, message |-> message, result |-> EmptyDict]

NoLocated == [kind |-> "none", type |-> "", message |-> << >>, result |-> EmptyDict]

\* int(v)
IntOf(v) ==
    CASE v.t = "int"   -> Returns(Dict(Absent, v, Absent, Absent, Absent))
      [] v.t = "float" ->
            LET n == IF v.q[1] >= 0 THEN v.q[1] \div v.q[2]
                     ELSE 0 - ((0 - v.q[1]) \div v.q[2])
            IN  Returns(Dict(Absent, JInt(n), Absent, Absent, Absent))
      [] v.t = "str"   ->
            IF AllDigits(Unsigned(v.s))
            THEN Returns(Dict(Absent,
                              JInt(Signed(v.s, IntToRat(DigitsValue(Unsigned(v.s))))[1]),
                              Absent, Absent, Absent))
            ELSE Raises("ValueError",
                        << "invalid literal for int() with base 10: '" >>
                        \o v.s \o << "'" >>)
      [] OTHER         ->
            Raises("TypeError",
                   << "int() argument must be a string, a bytes-like object or a real number, not 'NoneType'" >>)

\* float(v)
FloatOf(v) ==
    CASE v.t \in {"int", "float"} ->
            Returns(Dict(Absent, Absent, Absent, JFloat(v.q), Absent))
      [] v.t = "str" ->
            IF IsDecimal(Unsigned(v.s))
            THEN Returns(Dict(Absent, Absent, Absent,
                              JFloat(Signed(v.s, DecimalValue(Unsigned(v.s)))),
                              Absent))
            ELSE Raises("ValueError",
                        << "could not convert string to float: '" >>
                        \o v.s \o << "'" >>)
      [] OTHER ->
            Raises("TypeError",
                   << "float() argument must be a string or a real number, not 'NoneType'" >>)

(***************************************************************************)
(* The reply of the model.                                                 *)
(***************************************************************************)
Word(w) == [w |-> w, n |-> << >>]

Num(chars) == [w |-> "", n |-> chars]

Reply(kind, fault, object, text) ==
    [kind |-> kind, fault |-> fault, object |-> object, text |-> text]

NoReply == Reply("none", "", EmptyDict, << >>)

\* the client raises
Fault(m) == Reply("fault", m, EmptyDict, << >>)

\* the content is a JSON number
JsonNumber == Reply("number", "", EmptyDict, << >>)

JsonObject(dict) == Reply("object", "", dict, << >>)

Text(tokens) == Reply("text", "", EmptyDict, tokens)

(***************************************************************************)
(* The patterns of the text mode, on tokens.  re.IGNORECASE: a label is    *)
(* matched in either case; there is no word boundary in the patterns, so   *)
(* a word that ends in the label's letter is a label too.                  *)
(***************************************************************************)
\* x
XLabel(tok) == tok.w \in {"x", "X", "max"}

\* y
YLabel(tok) == tok.w \in {"y", "Y"}

\* [=:]
Separator(tok) == tok.w \in {":", "="}

\* confidence
ConfidenceLabel(tok) == tok.w \in {"confidence", "Confidence"}

At(text, i) == IF i \in 1..Len(text) THEN text[i] ELSE Word("")

Leftmost(S) == CHOOSE i \in S : \A j \in S : i <= j

\* re.search(r"x\s*[=:]\s*(\d+)", content, re.IGNORECASE): group(1) of the
\* leftmost match, << >> without a match
x_match(text) ==
    LET S == { i \in 1..Len(text) :
                /\ XLabel(text[i])
                /\ Separator(At(text, i + 1))
                /\ DigitRun(At(text, i + 2).n) # << >> }
    IN  IF S = {} THEN << >> ELSE DigitRun(text[Leftmost(S) + 2].n)

\* re.search(r"y\s*[=:]\s*(\d+)", content, re.IGNORECASE)
y_match(text) ==
    LET S == { i \in 1..Len(text) :
                /\ YLabel(text[i])
                /\ Separator(At(text, i + 1))
                /\ DigitRun(At(text, i + 2).n) # << >> }
    IN  IF S = {} THEN << >> ELSE DigitRun(text[Leftmost(S) + 2].n)

\* (0\.\d+|1\.0|1) at the start of chars
ConfidenceGroup(chars) ==
    IF Len(chars) >= 3 /\ chars[1] = "0" /\ chars[2] = "." /\ chars[3] \in Digits
    THEN << "0", "." >> \o DigitRun(SubSeq(chars, 3, Len(chars)))
    ELSE IF Len(chars) >= 3 /\ SubSeq(chars, 1, 3) = << "1", ".", "0" >>
    THEN << "1", ".", "0" >>
    ELSE IF Len(chars) >= 1 /\ chars[1] = "1" THEN << "1" >>
    ELSE << >>

\* where the value stands after a confidence label at i: past [=:] or past
\* "level is"; 0 when neither follows
ValueAfter(text, i) ==
    IF Separator(At(text, i + 1)) THEN i + 2
    ELSE IF At(text, i + 1).w \in {"level", "Level"} /\ At(text, i + 2).w \in {"is", "Is"}
    THEN i + 3
    ELSE 0

\* re.search(r"confidence\s*(?:[=:]|level\s+is)\s*(0\.\d+|1\.0|1)", ...)
confidence_match(text) ==
    LET S == { i \in 1..Len(text) :
                /\ ConfidenceLabel(text[i])
                /\ ValueAfter(text, i) # 0
                /\ ConfidenceGroup(At(text, ValueAfter(text, i)).n) # << >> }
    IN  IF S = {} THEN << >>
        ELSE ConfidenceGroup(text[ValueAfter(text, Leftmost(S))].n)

\* "marker" in content
Contains(text, marker) == \E i \in 1..Len(text) : text[i].w = marker

\* Mutant: another default.
DefaultConfidenceHalf == Rat(1, 2)

DefaultConfidence == Rat(8, 10)

(***************************************************************************)
(* The steps of the function.                                              *)
(***************************************************************************)
\* The JSON branch: "error" in result raises TypeError on a number.
ParseJson(r) ==
    IF r.kind = "number"
    THEN Raises("TypeError", << "argument of type 'int' is not iterable" >>)
    ELSE IF r.object.error # Absent
    THEN Raises("ValueError", r.object.error.s)
    ELSE Returns(r.object)

\* Mutant: the coordinates are looked for before the markers.
ParseTextCoordsFirst(text, element_description) ==
    IF x_match(text) = << >> /\ Contains(text, "Element not found")
    THEN Raises("ValueError", << "Element not found" >>)
    ELSE IF x_match(text) = << >> /\ Contains(text, "Ambiguous description")
    THEN Raises("ValueError", << "Ambiguous description" >>)
    ELSE IF x_match(text) = << >>
    THEN Raises("ValueError", << "Could not find x coordinate in response" >>)
    ELSE IF y_match(text) = << >>
    THEN Raises("ValueError", << "Could not find y coordinate in response" >>)
    ELSE Returns(Dict(Absent,
                      JInt(DigitsValue(x_match(text))),
                      JInt(DigitsValue(y_match(text))),
                      JFloat(IF confidence_match(text) = << >>
                             THEN DefaultConfidence
                             ELSE DecimalValue(confidence_match(text))),
                      JStr(<< element_description >>)))

\* Mutant: the y coordinate is looked for first.
ParseTextYFirst(text, element_description) ==
    IF Contains(text, "Element not found")
    THEN Raises("ValueError", << "Element not found" >>)
    ELSE IF Contains(text, "Ambiguous description")
    THEN Raises("ValueError", << "Ambiguous description" >>)
    ELSE IF y_match(text) = << >>
    THEN Raises("ValueError", << "Could not find y coordinate in response" >>)
    ELSE IF x_match(text) = << >>
    THEN Raises("ValueError", << "Could not find x coordinate in response" >>)
    ELSE Returns(Dict(Absent,
                      JInt(DigitsValue(x_match(text))),
                      JInt(DigitsValue(y_match(text))),
                      JFloat(IF confidence_match(text) = << >>
                             THEN DefaultConfidence
                             ELSE DecimalValue(confidence_match(text))),
                      JStr(<< element_description >>)))

\* The except json.JSONDecodeError branch.
ParseText(text, element_description) ==
    IF Contains(text, "Element not found")
    THEN Raises("ValueError", << "Element not found" >>)
    ELSE IF Contains(text, "Ambiguous description")
    THEN Raises("ValueError", << "Ambiguous description" >>)
    ELSE IF x_match(text) = << >>
    THEN Raises("ValueError", << "Could not find x coordinate in response" >>)
    ELSE IF y_match(text) = << >>
    THEN Raises("ValueError", << "Could not find y coordinate in response" >>)
    ELSE Returns(Dict(Absent,
                      JInt(DigitsValue(x_match(text))),
                      JInt(DigitsValue(y_match(text))),
                      JFloat(IF confidence_match(text) = << >>
                             THEN DefaultConfidence
                             ELSE DecimalValue(confidence_match(text))),
                      JStr(<< element_description >>)))

required_keys == << "x", "y", "confidence" >>

\* Mutant: the keys are looked for from the last to the first.
MissingKeyLast(dict) ==
    LET S == { i \in 1..Len(required_keys) : dict[required_keys[i]] = Absent }
    IN  IF S = {} THEN ""
        ELSE required_keys[CHOOSE i \in S : \A j \in S : i >= j]

\* the key at which the loop over required_keys raises, "" when it ends
MissingKey(dict) ==
    LET S == { i \in 1..Len(required_keys) : dict[required_keys[i]] = Absent }
    IN  IF S = {} THEN "" ELSE required_keys[Leftmost(S)]

\* Mutant: a confidence above 1 is let through.
ClampFloor(c) == IF RatLess(c, Zero) THEN Zero ELSE c

\* max(0, min(c, 1)), taken when not 0 <= c <= 1
Clamp(c) ==
    IF ~RatLess(c, Zero) /\ ~RatLess(One, c) THEN c
    ELSE LET m == IF RatLess(One, c) THEN One ELSE c
         IN  IF RatLess(Zero, m) THEN m ELSE Zero

\* Mutant: the description of the reply is always replaced.
ValidateOverwrites(dict, element_description) ==
    LET ix == IntOf(dict.x)
        iy == IntOf(dict.y)
        fc == FloatOf(dict.confidence)
    IN  IF MissingKey(dict) # ""
        THEN Raises("ValueError",
                    << "Invalid response format: missing '", MissingKey(dict),
                       "' field" >>)
        ELSE IF ix.kind = "error" THEN ix
        ELSE IF iy.kind = "error" THEN iy
        ELSE IF fc.kind = "error" THEN fc
        ELSE Returns(Dict(Absent,
                          ix.result.x,
                          iy.result.x,
                          JFloat(Clamp(fc.result.confidence.q)),
                          JStr(<< element_description >>)))

\* From "Validate the response format" to the return.
Validate(dict, element_description) ==
    LET ix == IntOf(dict.x)
        iy == IntOf(dict.y)
        fc == FloatOf(dict.confidence)
    IN  IF MissingKey(dict) # ""
        THEN Raises("ValueError",
                    << "Invalid response format: missing '", MissingKey(dict),
                       "' field" >>)
        ELSE IF ix.kind = "error" THEN ix
        ELSE IF iy.kind = "error" THEN iy
        ELSE IF fc.kind = "error" THEN fc
        ELSE Returns(Dict(Absent,
                          ix.result.x,
                          iy.result.x,
                          JFloat(Clamp(fc.result.confidence.q)),
                          IF dict.element_description = Absent
                          THEN JStr(<< element_description >>)
                          ELSE dict.element_description))

\* The body of the try statement.
Attempt(r, element_description) ==
    IF r.kind = "fault" THEN Raises("Exception", << r.fault >>)
    ELSE LET parsed == IF r.kind = "text"
                       THEN ParseText(r.text, element_description)
                       ELSE ParseJson(r)
         IN  IF parsed.kind = "error" THEN parsed
             ELSE Validate(parsed.result, element_description)

FailedPrefix == "Failed to find element: "

\* Mutant: the exception is let through as it was raised.
Reraised(e) == e

\* except Exception as e: raise ValueError(f"Failed to find element: {str(e)}")
FailedToFind(e) == Raises("ValueError", << FailedPrefix >> \o e.message)

find_element_coordinates_by_description(r, element_description) ==
    LET outcome == Attempt(r, element_description)
    IN  IF outcome.kind = "error" THEN FailedToFind(outcome) ELSE outcome

(***************************************************************************)
(* The replies and descriptions the lookups are run on.                    *)
(***************************************************************************)
Descriptions == {"button", "search icon", "Mock element"}

Faults == {"API Error", "Connection error."}

X100 == JInt(100)

Y200 == JInt(200)

Conf09 == JFloat(Rat(9, 10))

ErrorObjects ==
    { Dict(JStr(<< m >>), x, IF x = Absent THEN Absent ELSE Y200,
           IF x = Absent THEN Absent ELSE Conf09, Absent) :
        m \in {"Element not found", "Ambiguous description"},
        x \in {Absent, X100} }

\* every subset of the required keys
KeyObjects ==
    { Dict(Absent, x, y, c, Absent) :
        x \in {Absent, X100}, y \in {Absent, Y200}, c \in {Absent, Conf09} }

ReportedConfidences ==
    { JInt(0 - 1), JInt(0), JFloat(Rat(1, 2)), JInt(1), JInt(2),
      JFloat(Rat(3, 2)), JStr(<< "2" >>), JStr(<< "high" >>), JNull }

ConfidenceObjects ==
    { Dict(Absent, X100, Y200, c, JStr(<< "Mock element" >>)) :
        c \in ReportedConfidences }

CoordinateObjects ==
    { Dict(Absent, x, Y200, Conf09, JStr(<< "Mock element" >>)) :
        x \in { JFloat(Rat(201, 2)), JFloat(Rat(0 - 3, 2)),
                JStr(<< "4", "2" >>), JStr(<< "left" >>), JNull } }

XY == << Word("x"), Word(":"), Num(<< "1", "5", "0" >>), Word(","),
         Word("y"), Word(":"), Num(<< "2", "5", "0" >>) >>

ConfidenceTexts ==
    { XY \o << Word("confidence"), Word(":"), Num(n) >> :
        n \in { << "0", ".", "8", "5" >>, << "0", ".", "5" >>,
                << "1", ".", "0" >>, << "1" >>, << "0" >>, << "2" >>,
                << "-", "1" >>, << "1", ".", "5" >> } }
    \cup { XY \o << Word("Confidence"), Word("level"), Word("is"),
                    Num(<< "0", ".", "9" >>) >>,
           XY \o << Word("confidence"), Word("is"), Word("high") >> }

MarkerTexts ==
    { << Word("Element not found") >>,
      << Word("Element not found") >> \o XY,
      << Word("Ambiguous description") >>,
      XY \o << Word("Ambiguous description") >>,
      << Word("Ambiguous description"), Word("Element not found") >> \o XY,
      << Word("element not found") >> \o XY }

CoordinateTexts ==
    { XY,
      << Word("The"), Word("button") >>,
      << Word("x"), Word(":"), Num(<< "1", "5", "0" >>) >>,
      << Word("y"), Word("="), Num(<< "2", "5", "0" >>) >>,
      << Word("X"), Word("="), Num(<< "1", "5", "0" >>),
         Word("Y"), Word("="), Num(<< "2", "5", "0" >>) >>,
      << Word("max"), Word(":"), Num(<< "7" >>) >> \o XY,
      << Word("x"), Word(":"), Num(<< "-", "5" >>) >> \o XY,
      << Word("x"), Word(":"), Num(<< "1", "2", ".", "5" >>),
         Word("y"), Word(":"), Num(<< "-", "2", "5", "0" >>) >> }

Replies ==
    { Fault(m) : m \in Faults }
    \cup {JsonNumber}
    \cup { JsonObject(d) :
             d \in ErrorObjects \cup KeyObjects \cup ConfidenceObjects
                   \cup CoordinateObjects }
    \cup { Text(t) : t \in ConfidenceTexts \cup MarkerTexts \cup CoordinateTexts }

\* Mutant: the locator scales what it has found by the scaling state.
LookupScaled(r, element_description) ==
    /\ reply' = r
    /\ queried' = element_description
    /\ located' =
          LET out == find_element_coordinates_by_description(r, element_description)
          IN  IF out.kind = "result"
              THEN Returns([out.result EXCEPT
                               !.x = JInt(ScaleCoord(@.q, scaling_x)),
                               !.y = JInt(ScaleCoord(@.q, scaling_y))])
              ELSE out
    /\ UNCHANGED << scalingVars, passVars, tapVars, readVars, loadVars, toolVars >>

\* One lookup, from the call to the return or the raise.  The function
\* keeps nothing between calls.
Lookup(r, element_description) ==
    /\ reply' = r
    /\ queried' = element_description
    /\ located' = find_element_coordinates_by_description(r, element_description)
    /\ UNCHANGED << scalingVars, passVars, tapVars, readVars, loadVars, toolVars >>

(***************************************************************************)
(* calibration.py: load_calibration_data.                                  *)
(*                                                                         *)
(* The file is read by csv.DictReader: the first line gives the column     *)
(* names, every later line a row, a dictionary from the column names to    *)
(* the cells of the line.  A line with fewer cells than columns gives a    *)
(* row in which the columns left over are None.                            *)
(***************************************************************************)
MaxRows == 3

\* a file by whether it is there, its header line and its rows.  A row is
\* given by the cells under description, x and y.
Source(exists, header, rows) ==
    [exists |-> exists, header |-> header, rows |-> rows]

NoSource == Source(FALSE, << >>, << >>)

Row(description, x, y) == [description |-> description, x |-> x, y |-> y]

Points(points) ==
    [kind |-> "points", type |-> "", message |-> << >>, points |-> points]

LoadRaises(type, message) ==
    [kind |-> "error", type |-> type, message |-> message, points |-> << >>]

NoLoaded == [kind |-> "none", type |-> "", message |-> << >>, points |-> << >>]

required_fields == << "description", "x", "y" >>

\* all(field in reader.fieldnames for field in required_fields)
HeaderValid(header) ==
    \A i \in 1..Len(required_fields) :
        \E j \in 1..Len(header) : header[j] = required_fields[i]

\* One row of the loop: the point is built and appended; ValueError and
\* KeyError are caught and the row is skipped; any other exception of the
\* conversions leaves the loop.
RowStep(acc, row) ==
    LET ix == IntOf(row.x)
        iy == IntOf(row.y)
        e  == IF ix.kind = "error" THEN ix ELSE iy
    IN  IF acc.kind = "error" THEN acc
        ELSE IF e.kind = "error"
        THEN IF e.type \in {"ValueError", "KeyError"} THEN acc
             ELSE LoadRaises(e.type, e.message)
        ELSE Points(Append(acc.points,
                           [description |-> row.description,
                            x |-> ix.result.x.q[1],
                            y |-> iy.result.x.q[1]]))

RECURSIVE ReadRows(_, _)
ReadRows(acc, rows) ==
    IF Len(rows) = 0 THEN acc
    ELSE ReadRows(RowStep(acc, Head(rows)), Tail(rows))

\* The body of the try statement: an empty file has no fieldnames.
ReadFile(src) ==
    IF src.header = << >>
    THEN LoadRaises("TypeError", << "argument of type 'NoneType' is not iterable" >>)
    ELSE IF ~HeaderValid(src.header)
    THEN LoadRaises("ValueError",
                    << "Calibration file must contain columns: description, x, y" >>)
    ELSE ReadRows(Points(<< >>), src.rows)

load_calibration_data(src) ==
    LET read == ReadFile(src)
    IN  IF ~src.exists
        THEN LoadRaises("FileNotFoundError", << "Calibration file not found: " >>)
        ELSE IF read.kind = "error"
        THEN LoadRaises("ValueError",
                        << "Failed to read calibration file: " >> \o read.message)
        ELSE IF read.points = << >>
        THEN LoadRaises("ValueError",
                        << "No valid calibration points found in the file" >>)
        ELSE read

\* the lines a file may have under the header
Cell(chars) == JStr(chars)

RowKinds ==
    { Row("clock", Cell(<< "2" >>), Cell(<< "1" >>)),
      Row("phone", Cell(<< "1", "0" >>), Cell(<< "-", "2" >>)),
      Row("camera", Cell(<< "x" >>), Cell(<< "0" >>)),
      Row("browser", Cell(<< "1" >>), Cell(<< "1", ".", "5" >>)),
      Row("settings", Cell(<< "3" >>), JNull) }

RECURSIVE RowLists(_)
RowLists(n) ==
    IF n = 0 THEN { << >> }
    ELSE LET shorter == RowLists(n - 1)
         IN  shorter \cup { Append(rows, row) :
                               rows \in { r \in shorter : Len(r) = n - 1 },
                               row \in RowKinds }

FullHeader == << "description", "x", "y" >>

Sources ==
    { Source(TRUE, FullHeader, rows) : rows \in RowLists(MaxRows) }
    \cup { Source(TRUE, header, << Row("clock", Cell(<< "2" >>), Cell(<< "1" >>)) >>) :
             header \in { << "x", "y", "description", "note" >>,
                          << "description", "x" >>,
                          << "invalid", "header" >> } }
    \cup { Source(TRUE, << >>, << >>), NoSource }

Load(src) ==
    /\ source' = src
    /\ loaded' = load_calibration_data(src)
    /\ UNCHANGED << scalingVars, passVars, tapVars, readVars, locVars, toolVars >>

(***************************************************************************)
(* main.py: tap_screen and custom_swipe called as tools.  Each validates   *)
(* its coordinates, spawns one adb process and awaits its exit.            *)
(***************************************************************************)
NoCall == [tool |-> "none", args |-> << >>]

Call2(tool, args) == [tool |-> tool, args |-> args]

DigitChar == << "0", "1", "2", "3", "4", "5", "6", "7", "8", "9" >>

\* str(n) of an integer, by its characters
RECURSIVE StrOfNat(_)
StrOfNat(n) ==
    IF n < 10 THEN << DigitChar[n + 1] >>
    ELSE Append(StrOfNat(n \div 10), DigitChar[(n % 10) + 1])

StrOf(n) == IF n < 0 THEN << "-" >> \o StrOfNat(0 - n) ELSE StrOfNat(n)

\* an adb command line: the words after "adb" and the arguments after them
Command(words, args) == [words |-> words, args |-> args]

TapCommand(x, y) ==
    Command(<< "shell", "input", "tap" >>, << StrOf(x), StrOf(y) >>)

SwipeCommand(x1, y1, x2, y2) ==
    Command(<< "shell", "input", "swipe" >>,
            << StrOf(x1), StrOf(y1), StrOf(x2), StrOf(y2), << "1", "0", "0" >> >>)

\* Mutant: only the start of the swipe is validated.
SwipeRejectsStart(x1, y1, x2, y2) == x1 < 0 \/ y1 < 0

\* custom_swipe's validation
SwipeRejects(x1, y1, x2, y2) == x1 < 0 \/ y1 < 0 \/ x2 < 0 \/ y2 < 0

ToolCoords == {0 - 1, 0, 12, 360}

\* tap_screen is called: it raises, or spawns the adb process and awaits it
TapScreen(x, y) ==
    /\ tool_pc # "adb"
    /\ tool_call' = Call2("tap_screen", << x, y >>)
    /\ IF TapScreenRejects(x, y)
       THEN /\ tool_pc' = "raised"
            /\ tool_outcome' = "ValueError"
            /\ commands' = << >>
       ELSE /\ tool_pc' = "adb"
            /\ tool_outcome' = "none"
            /\ commands' = << TapCommand(x, y) >>
    /\ UNCHANGED << scalingVars, passVars, tapVars, readVars, locVars, loadVars >>

\* custom_swipe is called
CustomSwipe(x1, y1, x2, y2) ==
    /\ tool_pc # "adb"
    /\ tool_call' = Call2("custom_swipe", << x1, y1, x2, y2 >>)
    /\ IF SwipeRejects(x1, y1, x2, y2)
       THEN /\ tool_pc' = "raised"
            /\ tool_outcome' = "ValueError"
            /\ commands' = << >>
       ELSE /\ tool_pc' = "adb"
            /\ tool_outcome' = "none"
            /\ commands' = << SwipeCommand(x1, y1, x2, y2) >>
    /\ UNCHANGED << scalingVars, passVars, tapVars, readVars, locVars, loadVars >>

\* The adb process has exited: the tool returns its message, or raises
\* RuntimeError on a nonzero exit code.
ToolProcessExit(ok) ==
    /\ tool_pc = "adb"
    /\ tool_pc' = IF ok THEN "returned" ELSE "raised"
    /\ tool_outcome' = IF ok THEN "done" ELSE "RuntimeError"
    /\ UNCHANGED << scalingVars, passVars, tapVars, readVars, locVars, loadVars,
                    tool_call, commands >>

\* the scaling state as the module is imported
InitScaling ==
    /\ scaling_x = One
    /\ scaling_y = One
    /\ calibrated = FALSE

\* no call has been made
InitCalls ==
    /\ pc = [p \in Passes |-> "idle"]
    /\ calibration_points = [p \in Passes |-> << >>]
    /\ idx = [p \in Passes |-> 0]
    /\ x_ratios = [p \in Passes |-> << >>]
    /\ y_ratios = [p \in Passes |-> << >>]
    /\ successful_points = [p \in Passes |-> 0]
    /\ result = [p \in Passes |-> NoResult]
    /\ trace = [p \in Passes |-> << >>]
    /\ answers = [p \in Passes |-> << >>]
    /\ pre = [p \in Passes |-> IdentityState]
    /\ tap_pc = "idle"
    /\ element_info = NoInfo
    /\ adb_tap = NoTap
    /\ tap_result = "none"
    /\ observed = NoRead
    /\ scale_in = NoCoords
    /\ scaled = NoCoords
    /\ reply = NoReply
    /\ queried = ""
    /\ located = NoLocated
    /\ source = NoSource
    /\ loaded = NoLoaded
    /\ tool_pc = "idle"
    /\ tool_call = NoCall
    /\ commands = << >>
    /\ tool_outcome = "none"

Init == InitScaling /\ InitCalls

\* the coroutine in which the sequential caller runs its calibrations
Sequential == {"p1"}

\* no call is in flight
Quiet == tap_pc = "idle" /\ \A p \in Passes : pc[p] = "idle"

Next ==
    \/ \E p \in Sequential, points \in PointLists :
          Quiet /\ Calibrate(p, points)
    \/ \E p \in Passes, ok \in BOOLEAN : HomeDone(p, ok)
    \/ \E p \in Passes : SleepDone(p)
    \/ \E p \in Passes, info \in LookupOutcomes : LocateDone(p, info)
    \/ \E p \in Passes : Finish(p)
    \/ Quiet /\ TapElementFallback
    \/ \E ok \in BOOLEAN, info \in LookupOutcomes : ScreenshotDone(ok, info)
    \/ \E ok \in BOOLEAN : TapDone(ok)
    \/ TapFinish

Spec == Init /\ [][Next]_vars

(***************************************************************************)
(* apply_scaling called under the scaling states a program can be in.      *)
(***************************************************************************)
InitScale ==
    /\ \E st \in ScalingStates :
          /\ scaling_x = st.scale_x
          /\ scaling_y = st.scale_y
          /\ calibrated = st.calibrated
    /\ InitCalls

NextScale == \E x \in ScaleInputs, y \in ScaleInputs : ApplyScaling(x, y)

SpecScale == InitScale /\ [][NextScale]_vars

(***************************************************************************)
(* Lookups, one after the other, on the replies above.                     *)
(***************************************************************************)
NextLocate ==
    \E r \in Replies, element_description \in Descriptions :
        Lookup(r, element_description)

SpecLocate == Init /\ [][NextLocate]_vars

(***************************************************************************)
(* The same lookups under the scaling states a program can be in.          *)
(***************************************************************************)
SpecLocateScaled == InitScale /\ [][NextLocate]_vars

(***************************************************************************)
(* Loads, one after the other, of the files above.                         *)
(***************************************************************************)
NextLoad == \E src \in Sources : Load(src)

SpecLoad == Init /\ [][NextLoad]_vars

(***************************************************************************)
(* tap_element_fallback called again and again, the locator answering with *)
(* coordinates on both sides of zero.                                      *)
(***************************************************************************)
TapCoords == {0 - 1, 0, 1, 2, 150, 250}

TapOutcomes ==
    {LookupRaise}
    \cup { Located(x, y, c) : x \in TapCoords, y \in TapCoords, c \in {7, 9} }

NextTap ==
    \/ TapElementFallback
    \/ \E ok \in BOOLEAN, info \in TapOutcomes : ScreenshotDone(ok, info)
    \/ \E ok \in BOOLEAN : TapDone(ok)
    \/ TapFinish

SpecTap == Init /\ [][NextTap]_vars

(***************************************************************************)
(* Calls of the two tools, each awaited before the next.                   *)
(***************************************************************************)
NextTools ==
    \/ \E x \in ToolCoords, y \in ToolCoords : TapScreen(x, y)
    \/ \E x1 \in ToolCoords, y1 \in ToolCoords, x2 \in ToolCoords, y2 \in ToolCoords :
          CustomSwipe(x1, y1, x2, y2)
    \/ \E ok \in BOOLEAN : ToolProcessExit(ok)

SpecTools == Init /\ [][NextTools]_vars

(***************************************************************************)
(* Two calibration passes started by one event loop with no ordering       *)
(* between them (asyncio.gather or two tasks), and a reader.  Each pass    *)
(* runs once and its outcome stays in result.                              *)
(***************************************************************************)
MaxConcPoints == 2

ConcLists == { SubSeq(ReferenceTable, 1, n) : n \in 2..MaxConcPoints }

ConcOutcomes ==
    {LookupRaise, Located(1, 1, 7), Located(0, 1, 7), Located(1, 0, 7)}

NextConc ==
    \/ \E p \in Passes, points \in ConcLists : Calibrate(p, points)
    \/ \E p \in Passes, ok \in BOOLEAN : HomeDone(p, ok)
    \/ \E p \in Passes : SleepDone(p)
    \/ \E p \in Passes, info \in ConcOutcomes : LocateDone(p, info)
    \/ Read

SpecConc == Init /\ [][NextConc]_vars

(***************************************************************************)
(* One caller that calibrates again and again, and callers of the readers, *)
(* of apply_scaling and of the locator that run whenever the pass is       *)
(* suspended or between two passes.                                        *)
(***************************************************************************)
MixInputs == { << IntToRat(100), Rat(3, 2) >> }

\* two reference lists that give different pairs
MixLists == { SubSeq(ReferenceTable, k, k + MaxConcPoints - 1) : k \in 1..2 }

\* a raise, an answer at the threshold and one under it
MixOutcomes == {LookupRaise, Located(1, 1, 7), Located(1, 1, 6)}

MixReplies == { Text(XY) }

MixDescriptions == {"button"}

NextMixed ==
    \/ \E p \in Sequential, points \in MixLists : Calibrate(p, points)
    \/ \E p \in Sequential, ok \in BOOLEAN : HomeDone(p, ok)
    \/ \E p \in Sequential : SleepDone(p)
    \/ \E p \in Sequential, info \in MixOutcomes : LocateDone(p, info)
    \/ \E p \in Sequential : Finish(p)
    \/ Read
    \/ \E c \in MixInputs : ApplyScaling(c[1], c[2])
    \/ \E r \in MixReplies, element_description \in MixDescriptions :
          Lookup(r, element_description)

SpecMixed == Init /\ [][NextMixed]_vars

(***************************************************************************)
(* What the claims speak of, read off the record of a pass (its reference  *)
(* points, its trace and the answers it got).                              *)
(***************************************************************************)
\* the positions of trace at which ev happened
Events(p, ev) == { i \in 1..Len(trace[p]) : trace[p][i].ev = ev }

\* the pass is over and got past navigation and the settle delay
SweepOver(p) == pc[p] \in {"returned", "raised"} /\ Events(p, "awake") # {}

\* the answered points that pass the confidence filter
AcceptedIn(infos) ==
    { i \in 1..Len(infos) :
        ~infos[i].raised /\ infos[i].confidence >= ConfThreshold }

\* ... and of those, the ones with a nonzero perceived x (y)
XPoolIn(infos) == { i \in AcceptedIn(infos) : infos[i].x # 0 }

YPoolIn(infos) == { i \in AcceptedIn(infos) : infos[i].y # 0 }

Accepted(p) == AcceptedIn(answers[p])

XPool(p) == XPoolIn(answers[p])

YPool(p) == YPoolIn(answers[p])

\* expected / perceived of point i on one axis
RatioAt(points, infos, axis, i) ==
    IF axis = "x" THEN Rat(points[i].x, infos[i].x)
                  ELSE Rat(points[i].y, infos[i].y)

RECURSIVE SumOver(_, _, _, _)
SumOver(S, points, infos, axis) ==
    IF S = {} THEN Zero
    ELSE LET i == CHOOSE j \in S : TRUE
         IN  RatAdd(RatioAt(points, infos, axis, i),
                    SumOver(S \ {i}, points, infos, axis))

\* the arithmetic mean of expected / perceived over the points of S # {}
MeanOver(S, points, infos, axis) ==
    LET t == SumOver(S, points, infos, axis)
    IN  Rat(t[1], t[2] * Cardinality(S))

(***************************************************************************)
(* C1.  ScalingState is the identity triple (1, 1, false) until a pass     *)
(* succeeds; every change of it is the install of one successful pass,     *)
(* which sets scale_x and scale_y to the two means that pass computed from *)
(* its own answers and sets calibrated: never calibrated = false with a    *)
(* non-identity scale, never the two scales from different passes.         *)
(***************************************************************************)
InstallOf(p) ==
    /\ pc[p] # "returned" /\ pc'[p] = "returned"
    /\ result'[p].kind = "pair"
    /\ scaling_x' = result'[p].sx /\ scaling_y' = result'[p].sy
    /\ calibrated'
    /\ XPoolIn(answers'[p]) # {} /\ YPoolIn(answers'[p]) # {}
    /\ scaling_x' = MeanOver(XPoolIn(answers'[p]), calibration_points'[p],
                             answers'[p], "x")
    /\ scaling_y' = MeanOver(YPoolIn(answers'[p]), calibration_points'[p],
                             answers'[p], "y")

C1_ScalingStateWhole ==
    /\ [](~calibrated => (scaling_x = One /\ scaling_y = One))
    /\ [][ScalingState' # ScalingState => \E p \in Passes : InstallOf(p)]_vars

\* a failed recalibration has left a non-identity calibrated state in place
C1_Witness ==
    \E p \in Passes :
        /\ pc[p] = "raised" /\ result[p].kind = "ValueError"
        /\ calibrated /\ scaling_x # One /\ scaling_y # One

(***************************************************************************)
(* C2.  A pass whose sweep ended with fewer than 2 accepted points (raised *)
(* lookups and confidences below 0.7 not counting) has raised the          *)
(* insufficient-data ValueError, and ScalingState is what it was when the  *)
(* pass was called.                                                        *)
(***************************************************************************)
C2_InsufficientKeepsState ==
    \A p \in Passes :
        (SweepOver(p) /\ Cardinality(Accepted(p)) < 2) =>
            /\ pc[p] = "raised"
            /\ result[p].kind = "ValueError"
            /\ ScalingState = pre[p]

\* one accepted point, one raised lookup and one low confidence, on top of
\* an installed calibration
C2_Witness ==
    \E p \in Passes :
        /\ SweepOver(p) /\ Cardinality(Accepted(p)) = 1
        /\ \E i \in 1..Len(answers[p]) : answers[p][i].raised
        /\ \E i \in 1..Len(answers[p]) :
              ~answers[p][i].raised /\ answers[p][i].confidence < ConfThreshold
        /\ pre[p].calibrated /\ pre[p].scale_x # One

(***************************************************************************)
(* C3.  A pass navigates, then waits, then looks up: every lookup is       *)
(* issued after go_to_home_screen has succeeded and the sleep has ended,   *)
(* the sleep is issued after the navigation succeeded, and a failed        *)
(* navigation ends the pass with its RuntimeError, no lookup issued and    *)
(* ScalingState as it was at the call.                                     *)
(***************************************************************************)
C3_NavigateSettleLookup ==
    \A p \in Passes :
        /\ \A i \in Events(p, "find_element") :
              \E j \in Events(p, "home_ok") :
                 \E k \in Events(p, "awake") : j < k /\ k < i
        /\ \A i \in Events(p, "sleep") :
              \E j \in Events(p, "home_ok") : j < i
        /\ \A i \in Events(p, "home_ok") \cup Events(p, "home_failed") :
              \E j \in Events(p, "go_to_home_screen") : j < i
        /\ Events(p, "home_failed") # {} =>
              /\ pc[p] = "raised"
              /\ result[p].kind = "RuntimeError"
              /\ Events(p, "find_element") = {}
              /\ Events(p, "sleep") = {}
              /\ answers[p] = << >>
              /\ ScalingState = pre[p]

\* a navigation failure on top of an installed calibration
C3_Witness ==
    \E p \in Passes :
        /\ Events(p, "home_failed") # {}
        /\ pc[p] = "raised"
        /\ calibrated /\ scaling_x # One

(***************************************************************************)
(* C4.  The lookups a pass has issued are those of its reference points,   *)
(* one each, in list order, whatever the earlier answers were; a raised    *)
(* lookup adds nothing to the pools or to the count, the sweep goes on     *)
(* after it, and the pass ends as its accepted points decide.              *)
(***************************************************************************)
\* the descriptions of the lookups issued, in order of issue
RECURSIVE LookupsIn(_)
LookupsIn(tr) ==
    IF Len(tr) = 0 THEN << >>
    ELSE IF Head(tr).ev = "find_element"
         THEN << Head(tr).description >> \o LookupsIn(Tail(tr))
         ELSE LookupsIn(Tail(tr))

C4_OneLookupPerPoint ==
    \A p \in Passes :
        LET issued == LookupsIn(trace[p])
            n      == Len(calibration_points[p])
        IN  /\ Len(issued) <= n
            /\ \A i \in 1..Len(issued) :
                  issued[i] = calibration_points[p][i].description
            /\ pc[p] = "locate" => Len(issued) = Len(answers[p]) + 1
            /\ pc[p] # "locate" => Len(issued) = Len(answers[p])
            /\ SweepOver(p) => Len(issued) = n
            /\ successful_points[p] = Cardinality(Accepted(p))
            /\ Len(x_ratios[p]) = Cardinality(XPool(p))
            /\ Len(y_ratios[p]) = Cardinality(YPool(p))
            /\ (SweepOver(p) /\ Cardinality(Accepted(p)) >= 2
                   /\ XPool(p) # {} /\ YPool(p) # {}) => pc[p] = "returned"

\* the first lookup raised and the pass went on to succeed
C4_Witness ==
    \E p \in Passes :
        /\ pc[p] = "returned"
        /\ Len(answers[p]) = 3
        /\ answers[p][1].raised
        /\ Cardinality(Accepted(p)) = 2

(***************************************************************************)
(* C5.  (Refuted by the code.)  A pass fails only by the navigation        *)
(* RuntimeError or the insufficient-data ValueError: whenever its sweep    *)
(* ended with at least 2 accepted points, zero perceived coordinates       *)
(* included, it has returned a pair and installed it with calibrated set.  *)
(***************************************************************************)
C5_OnlyTwoFailures ==
    \A p \in Passes :
        /\ pc[p] = "raised" => result[p].kind \in {"RuntimeError", "ValueError"}
        /\ (SweepOver(p) /\ Cardinality(Accepted(p)) >= 2) =>
              /\ pc[p] = "returned"
              /\ result[p].kind = "pair"
              /\ ScalingState = [scale_x |-> result[p].sx,
                                 scale_y |-> result[p].sy,
                                 calibrated |-> TRUE]

(***************************************************************************)
(* C6.  An answer counts exactly when its confidence is >= 0.7 (0.7        *)
(* included), and answers below the threshold leave no mark: the frame of  *)
(* a pass, and what it returns or raises, are those of the same pass over  *)
(* the list with the below-threshold points taken out.                     *)
(***************************************************************************)
Low(info) == ~info.raised /\ info.confidence < ConfThreshold

\* the positions of infos that are not below the threshold, ascending
RECURSIVE KeptFrom(_, _)
KeptFrom(infos, i) ==
    IF i > Len(infos) THEN << >>
    ELSE (IF Low(infos[i]) THEN << >> ELSE << i >>) \o KeptFrom(infos, i + 1)

Pick(seq, positions) == [k \in 1..Len(positions) |-> seq[positions[k]]]

C6_ConfidenceFilterExact ==
    \A p \in Passes :
        LET kept   == KeptFrom(answers[p], 1)
            points == Pick(calibration_points[p], kept)
            infos  == Pick(answers[p], kept)
            frame  == SweepFrom(EmptyFrame, points, infos)
        IN  /\ successful_points[p] =
                  Cardinality({ i \in 1..Len(answers[p]) :
                                  /\ ~answers[p][i].raised
                                  /\ answers[p][i].confidence >= ConfThreshold })
            /\ x_ratios[p] = frame.x_ratios
            /\ y_ratios[p] = frame.y_ratios
            /\ SweepOver(p) => result[p] = ScaleFor(points, infos)

\* a pass succeeded over three points, the first answered below the
\* threshold with nonzero coordinates, another exactly at the threshold
C6_Witness ==
    \E p \in Passes :
        /\ pc[p] = "returned"
        /\ Len(answers[p]) = 3
        /\ Low(answers[p][1]) /\ answers[p][1].x # 0 /\ answers[p][1].y # 0
        /\ ~answers[p][2].raised /\ answers[p][2].confidence = ConfThreshold

(***************************************************************************)
(* C7.  The pair a pass returns (and installs) is, per axis, the           *)
(* arithmetic mean of expected / perceived over exactly the accepted       *)
(* points whose perceived coordinate on that axis is nonzero; the two      *)
(* pools may differ in size.                                               *)
(***************************************************************************)
C7_MeansOfPools ==
    \A p \in Passes :
        pc[p] = "returned" =>
            /\ XPool(p) # {} /\ YPool(p) # {}
            /\ result[p].sx = MeanOver(XPool(p), calibration_points[p],
                                       answers[p], "x")
            /\ result[p].sy = MeanOver(YPool(p), calibration_points[p],
                                       answers[p], "y")
            /\ scaling_x = result[p].sx /\ scaling_y = result[p].sy

\* x averaged over two different ratios (2 and 1), y over a single point
C7_Witness ==
    \E p \in Passes :
        /\ pc[p] = "returned"
        /\ Cardinality(XPool(p)) = 2 /\ Cardinality(YPool(p)) = 1
        /\ result[p].sx = Rat(3, 2)

(***************************************************************************)
(* C8.  The two pools are filled independently: at every point of a pass   *)
(* x_ratios holds, in list order, the ratios of the accepted answers with  *)
(* perceived x # 0 and y_ratios those with perceived y # 0, so an accepted *)
(* answer with x = 0 and y # 0 gives its y ratio only (and symmetrically), *)
(* and successful_points counts every accepted answer.                     *)
(***************************************************************************)
RECURSIVE PoolFrom(_, _, _, _)
PoolFrom(points, infos, axis, i) ==
    IF i > Len(infos) THEN << >>
    ELSE LET in == IF axis = "x" THEN i \in XPoolIn(infos)
                                 ELSE i \in YPoolIn(infos)
         IN  (IF in THEN << RatioAt(points, infos, axis, i) >> ELSE << >>)
                 \o PoolFrom(points, infos, axis, i + 1)

C8_AxesIndependent ==
    \A p \in Passes :
        /\ x_ratios[p] = PoolFrom(calibration_points[p], answers[p], "x", 1)
        /\ y_ratios[p] = PoolFrom(calibration_points[p], answers[p], "y", 1)
        /\ successful_points[p] = Cardinality(Accepted(p))

\* the first answer has x = 0, y # 0 and the second x # 0, y = 0: each gave
\* one ratio and both were counted
C8_Witness ==
    \E p \in Passes :
        /\ Len(answers[p]) = 2
        /\ Accepted(p) = {1, 2}
        /\ answers[p][1].x = 0 /\ answers[p][1].y # 0
        /\ answers[p][2].x # 0 /\ answers[p][2].y = 0
        /\ Len(x_ratios[p]) = 1 /\ Len(y_ratios[p]) = 1
        /\ successful_points[p] = 2

(***************************************************************************)
(* C9.  A pass that has its two means (at least 2 accepted points, both    *)
(* pools non-empty) returns and installs them whether or not they lie in   *)
(* [0.5, 2.0]; once it has returned, get_scaling_factors() is the          *)
(* returned pair and is_calibrated() is true.                              *)
(***************************************************************************)
C9_UnusualStillInstalled ==
    \A p \in Passes :
        /\ (SweepOver(p) /\ Cardinality(Accepted(p)) >= 2
               /\ XPool(p) # {} /\ YPool(p) # {}) =>
              /\ pc[p] = "returned"
              /\ result[p] =
                    [kind |-> "pair",
                     sx |-> MeanOver(XPool(p), calibration_points[p],
                                     answers[p], "x"),
                     sy |-> MeanOver(YPool(p), calibration_points[p],
                                     answers[p], "y")]
        /\ pc[p] = "returned" =>
              /\ result[p].kind = "pair"
              /\ get_scaling_factors = << result[p].sx, result[p].sy >>
              /\ is_calibrated

\* installed: a scale_x above 2.0 and a scale_y below 0.5
C9_Witness ==
    \E p \in Passes :
        /\ pc[p] = "returned"
        /\ RatLess(Rat(2, 1), scaling_x)
        /\ RatLess(scaling_y, Rat(1, 2))

(***************************************************************************)
(* C10.  (Refuted by the code.)  The tap issued for a located element is   *)
(* at apply_scaling of the located coordinates under the stored            *)
(* ScalingState.                                                           *)
(***************************************************************************)
C10_TapUsesScaled ==
    tap_pc = "tap" =>
        adb_tap = apply_scaling(IntToRat(element_info.x),
                                IntToRat(element_info.y))

(***************************************************************************)
(* C11: with two calibration passes interleaved on one event loop, the     *)
(* scaling state, and whatever a reader has read of it, is always either   *)
(* the identity of the import or the pair of one pass that has returned    *)
(* together with calibrated = true: never the x scale of one pass with the *)
(* y scale of the other, never a new scale with the flag still false.      *)
(***************************************************************************)
PairOf(p) ==
    [scale_x |-> result[p].sx, scale_y |-> result[p].sy, calibrated |-> TRUE]

WholeStates ==
    {IdentityState} \cup { PairOf(p) : p \in { q \in Passes : pc[q] = "returned" } }

C11_NeverAMixture ==
    /\ ScalingState \in WholeStates
    /\ observed # NoRead => observed \in WholeStates

\* both passes have returned, with pairs that differ on both axes, and the
\* reader has read the pair of one while the state holds that of the other
C11_Witness ==
    /\ \A p \in Passes : pc[p] = "returned"
    /\ result["p1"].sx # result["p2"].sx
    /\ result["p1"].sy # result["p2"].sy
    /\ observed \in {PairOf("p1"), PairOf("p2")}
    /\ observed # ScalingState

(***************************************************************************)
(* C12: while the scaling state is the one of the import (both scales 1.0, *)
(* not calibrated), apply_scaling returns non-negative integer coordinates *)
(* as they were passed.                                                    *)
(***************************************************************************)
IsInt(q) == q[2] = 1

Applied == scale_in # NoCoords

C12_IdentityBeforeCalibration ==
    ( /\ Applied
      /\ ScalingState = IdentityState
      /\ IsInt(scale_in[1]) /\ scale_in[1][1] >= 0
      /\ IsInt(scale_in[2]) /\ scale_in[2][1] >= 0 )
    => scaled = << scale_in[1][1], scale_in[2][1] >>

C12_Witness ==
    /\ ScalingState = IdentityState
    /\ scale_in = << IntToRat(100), IntToRat(200) >>
    /\ scaled = << 100, 200 >>

(***************************************************************************)
(* C13: apply_scaling returns on each axis the product of the coordinate   *)
(* and the stored scale rounded to the nearest integer, a product halfway  *)
(* between two integers going up.                                          *)
(***************************************************************************)
\* the nearest integer, a half going up
NearestHalfUp(q) == (2 * q[1] + q[2]) \div (2 * q[2])

C13_NearestHalfUp ==
    Applied =>
        /\ scaled[1] = NearestHalfUp(RatMul(scale_in[1], scaling_x))
        /\ scaled[2] = NearestHalfUp(RatMul(scale_in[2], scaling_y))

(***************************************************************************)
(* What the claims on lookups speak of.                                    *)
(***************************************************************************)
Looked == reply # NoReply

Failed == located.kind = "error"

Succeeded == located.kind = "result"

\* the message the wrapping carries behind its prefix
Embedded ==
    IF located.message # << >> /\ Head(located.message) = FailedPrefix
    THEN Tail(located.message)
    ELSE << "(not wrapped)" >>

NoCoordinates == located.result = EmptyDict

IsText == reply.kind = "text"

IsObject == reply.kind = "object"

NotFoundMarked == IsText /\ Contains(reply.text, "Element not found")

AmbiguousMarked == IsText /\ Contains(reply.text, "Ambiguous description")

Unmarked == IsText /\ ~NotFoundMarked /\ ~AmbiguousMarked

HasX == x_match(reply.text) # << >>

HasY == y_match(reply.text) # << >>

LacksKey ==
    /\ IsObject
    /\ reply.object.error = Absent
    /\ \E k \in {"x", "y", "confidence"} : reply.object[k] = Absent

FirstLacking ==
    IF reply.object.x = Absent THEN "x"
    ELSE IF reply.object.y = Absent THEN "y"
    ELSE "confidence"

(***************************************************************************)
(* C14: a reply that is a JSON object with an error key makes the lookup   *)
(* fail with a message that is exactly the value of that key, and no       *)
(* coordinates are returned.                                               *)
(***************************************************************************)
C14_ErrorValueVerbatim ==
    (IsObject /\ reply.object.error # Absent)
    => /\ Failed
       /\ NoCoordinates
       /\ located.message = reply.object.error.s

(***************************************************************************)
(* C15: a lookup ends either with a complete result (x and y integers, a   *)
(* confidence and an element_description, nothing missing) or with an      *)
(* error, and every error is the one ValueError that puts "Failed to find  *)
(* element: " before the message of what was raised; for an exception out  *)
(* of the client that message is the client's.                             *)
(***************************************************************************)
Complete ==
    /\ Succeeded
    /\ located.result.x.t = "int"
    /\ located.result.y.t = "int"
    /\ located.result.confidence.t = "float"
    /\ located.result.element_description.t = "str"
    /\ located.result.error = Absent

LookupFailed ==
    /\ Failed
    /\ NoCoordinates
    /\ located.type = "ValueError"
    /\ Len(located.message) >= 2
    /\ Head(located.message) = FailedPrefix

C15_CompleteOrLookupFailed ==
    Looked =>
        /\ Complete \/ LookupFailed
        /\ reply.kind = "fault" =>
              LookupFailed /\ Embedded = << reply.fault >>
        /\ reply.kind = "number" => LookupFailed

C15_Witness ==
    /\ reply = Fault("Connection error.")
    /\ located.message = << FailedPrefix, "Connection error." >>

(***************************************************************************)
(* C16: a caller can tell the failures apart by their kind: a text with a  *)
(* marker and a reply that cannot be normalised (a missing key, a missing  *)
(* coordinate) do not fail the way other faults do, as the wrapped         *)
(* "Failed to find element" error.                                         *)
(***************************************************************************)
CannotNormalize ==
    \/ LacksKey
    \/ Unmarked /\ (~HasX \/ ~HasY)

\* what a caller sees of an error: its class and how its message begins
KindSeen == << located.type, Head(located.message) >>

C16_KindsDistinct ==
    (NotFoundMarked \/ AmbiguousMarked \/ CannotNormalize)
    => /\ Failed
       /\ KindSeen # << "ValueError", FailedPrefix >>

(***************************************************************************)
(* C17: a text with "Element not found" or "Ambiguous description" in it   *)
(* fails whatever coordinates it also carries, and returns none; with both *)
(* markers in it the failure is the one of "Element not found".            *)
(***************************************************************************)
C17_MarkersBeforeCoordinates ==
    /\ NotFoundMarked =>
          Failed /\ NoCoordinates /\ Embedded = << "Element not found" >>
    /\ (AmbiguousMarked /\ ~NotFoundMarked) =>
          Failed /\ NoCoordinates /\ Embedded = << "Ambiguous description" >>

C17_Witness ==
    /\ NotFoundMarked /\ AmbiguousMarked
    /\ HasX /\ HasY
    /\ Failed
    /\ Embedded = << "Element not found" >>

(***************************************************************************)
(* C18: a JSON object without an error key that lacks one of x, y,         *)
(* confidence fails with the invalid-format message naming the first key   *)
(* it lacks in the order x, y, confidence, and returns nothing.            *)
(***************************************************************************)
C18_FirstMissingKeyNamed ==
    LacksKey =>
        /\ Failed
        /\ NoCoordinates
        /\ Embedded = << "Invalid response format: missing '", FirstLacking,
                         "' field" >>

\* x is there, y and confidence are not: y is named
C18_Witness ==
    /\ LacksKey
    /\ reply.object.x # Absent
    /\ reply.object.y = Absent /\ reply.object.confidence = Absent
    /\ Embedded = << "Invalid response format: missing '", "y", "' field" >>

(***************************************************************************)
(* C19: a text without markers and without an x pattern fails for the x    *)
(* coordinate, also when it has no y pattern either; one with an x pattern *)
(* and without a y pattern fails for the y coordinate.                     *)
(***************************************************************************)
C19_XBeforeY ==
    /\ (Unmarked /\ ~HasX) =>
          /\ Failed
          /\ Embedded = << "Could not find x coordinate in response" >>
    /\ (Unmarked /\ HasX /\ ~HasY) =>
          /\ Failed
          /\ Embedded = << "Could not find y coordinate in response" >>

C19_Witness ==
    /\ Unmarked /\ ~HasX /\ ~HasY
    /\ Embedded = << "Could not find x coordinate in response" >>

(***************************************************************************)
(* C20: the confidence of a successful lookup lies in [0, 1] and is        *)
(* max(0, min(c, 1)) of the confidence c the reply reports, in a JSON      *)
(* object and in a text alike.                                             *)
(***************************************************************************)
\* the number a JSON value stands for, if any
IsNumeric(v) ==
    \/ v.t \in {"int", "float"}
    \/ v.t = "str" /\ IsDecimal(Unsigned(v.s))

NumberOf(v) ==
    IF v.t = "str" THEN Signed(v.s, DecimalValue(Unsigned(v.s))) ELSE v.q

\* where a text states its confidence: the first label followed by a number
StatedAt(text) ==
    { i \in 1..Len(text) :
        /\ ConfidenceLabel(text[i])
        /\ ValueAfter(text, i) # 0
        /\ IsDecimal(Unsigned(At(text, ValueAfter(text, i)).n)) }

Stated(text) == text[ValueAfter(text, Leftmost(StatedAt(text)))].n

Reports ==
    \/ IsObject /\ IsNumeric(reply.object.confidence)
    \/ IsText /\ StatedAt(reply.text) # {}

Reported ==
    IF IsObject THEN NumberOf(reply.object.confidence)
    ELSE Signed(Stated(reply.text), DecimalValue(Unsigned(Stated(reply.text))))

InUnit(c) == ~RatLess(c, Zero) /\ ~RatLess(One, c)

Clamped(c) == IF RatLess(c, Zero) THEN Zero ELSE IF RatLess(One, c) THEN One ELSE c

C20_ClampOfReported ==
    Succeeded =>
        /\ InUnit(located.result.confidence.q)
        /\ Reports => located.result.confidence.q = Clamped(Reported)

\* the ways of writing a confidence the text pattern takes whole
TakenWhole(chars) ==
    \/ chars \in { << "1" >>, << "1", ".", "0" >> }
    \/ /\ Len(chars) >= 3
       /\ chars[1] = "0" /\ chars[2] = "."
       /\ AllDigits(SubSeq(chars, 3, Len(chars)))

\* Amended: in a JSON object the confidence is max(0, min(c, 1)) of the
\* reported number c, and no reported number makes the lookup fail.  In a
\* text the confidence is the stated one when it is written 0.<digits>,
\* 1.0 or 1; of a number that begins with 1 otherwise only the 1 is taken;
\* any other number (0, 2, -1) is not taken for a confidence and the result
\* carries the default 0.8.  It lies in [0, 1] in every case.
C20_ClampOrPattern ==
    /\ Succeeded => InUnit(located.result.confidence.q)
    /\ (Succeeded /\ IsObject /\ Reports) =>
          located.result.confidence.q = Clamped(Reported)
    /\ ( /\ IsObject /\ reply.object.error = Absent
         /\ reply.object.x.t = "int" /\ reply.object.y.t = "int"
         /\ Reports ) => Succeeded
    /\ (Succeeded /\ IsText /\ Reports) =>
          located.result.confidence.q =
             IF TakenWhole(Stated(reply.text)) THEN Reported
             ELSE IF Head(Stated(reply.text)) = "1" THEN One
             ELSE DefaultConfidence
    /\ (Unmarked /\ HasX /\ HasY) => Succeeded

\* a JSON object reports 2 and the lookup returns 1
C20_Witness ==
    /\ IsObject /\ Reports
    /\ Reported = IntToRat(2)
    /\ Succeeded
    /\ located.result.confidence.q = One

(***************************************************************************)
(* C21: a successful lookup on a text returns confidence 0.8 when the      *)
(* confidence pattern finds nothing in the text, the value the pattern     *)
(* took otherwise, and the queried description as element_description.     *)
(***************************************************************************)
C21_TextDefaults ==
    (Succeeded /\ IsText) =>
        /\ located.result.element_description = JStr(<< queried >>)
        /\ confidence_match(reply.text) = << >> =>
              located.result.confidence.q = Rat(4, 5)
        /\ confidence_match(reply.text) # << >> =>
              located.result.confidence.q = DecimalValue(confidence_match(reply.text))
        /\ (Reports /\ TakenWhole(Stated(reply.text))) =>
              located.result.confidence.q = Reported

\* "x: 150, y: 250" and nothing on a confidence
C21_Witness ==
    /\ reply = Text(XY)
    /\ queried = "search icon"
    /\ located.result.x = JInt(150) /\ located.result.y = JInt(250)
    /\ located.result.confidence.q = Rat(4, 5)
    /\ located.result.element_description = JStr(<< "search icon" >>)

(***************************************************************************)
(* C22: a JSON object with x, y and confidence and no element_description  *)
(* is accepted and the result carries the queried description; an          *)
(* element_description the object supplies is returned as it is.           *)
(***************************************************************************)
Convertible ==
    /\ IsObject
    /\ reply.object.error = Absent
    /\ reply.object.x.t = "int" /\ reply.object.y.t = "int"
    /\ IsNumeric(reply.object.confidence)

C22_DescriptionDefaulted ==
    /\ (Convertible /\ reply.object.element_description = Absent) =>
          /\ Succeeded
          /\ located.result.element_description = JStr(<< queried >>)
    /\ (Convertible /\ reply.object.element_description # Absent) =>
          /\ Succeeded
          /\ located.result.element_description = reply.object.element_description

\* the object names the element otherwise than the caller did
C22_Witness ==
    /\ Convertible
    /\ queried = "button"
    /\ reply.object.element_description = JStr(<< "Mock element" >>)
    /\ located.result.element_description = JStr(<< "Mock element" >>)

(***************************************************************************)
(* C23: loading a file gives exactly its well-formed rows (a description,  *)
(* an integer x, an integer y) in the order of the file, the other rows    *)
(* being skipped; it fails, with no point, when the header lacks one of    *)
(* description, x, y, and when no row is well-formed.                      *)
(***************************************************************************)
IntegerCell(cell) == cell.t = "str" /\ AllDigits(Unsigned(cell.s))

WellFormed(row) == IntegerCell(row.x) /\ IntegerCell(row.y)

CellValue(cell) == Signed(cell.s, IntToRat(DigitsValue(Unsigned(cell.s))))[1]

RECURSIVE WellFormedRows(_)
WellFormedRows(rows) ==
    IF Len(rows) = 0 THEN << >>
    ELSE IF WellFormed(Head(rows))
    THEN << [description |-> Head(rows).description,
             x |-> CellValue(Head(rows).x),
             y |-> CellValue(Head(rows).y)] >> \o WellFormedRows(Tail(rows))
    ELSE WellFormedRows(Tail(rows))

HasColumns(header) == {"description", "x", "y"} \subseteq { header[j] : j \in 1..Len(header) }

C23_WellFormedRowsOnly ==
    (source # NoSource /\ source.exists) =>
        IF HasColumns(source.header) /\ WellFormedRows(source.rows) # << >>
        THEN loaded = Points(WellFormedRows(source.rows))
        ELSE loaded.kind = "error" /\ loaded.points = << >>

(***************************************************************************)
(* C24: a call of tap_screen or custom_swipe with a negative coordinate    *)
(* raises ValueError and spawns no adb command; a call with none spawns    *)
(* exactly one, of the tool's kind, whose arguments read as the            *)
(* coordinates of the call.                                                *)
(***************************************************************************)
Called == tool_call.tool # "none"

SomeNegative == \E i \in 1..Len(tool_call.args) : tool_call.args[i] < 0

\* the integer written by chars
Reads(chars) == Signed(chars, IntToRat(DigitsValue(Unsigned(chars))))[1]

CarriesCoordinates(cmd) ==
    /\ cmd.words = << "shell", "input",
                      IF tool_call.tool = "tap_screen" THEN "tap" ELSE "swipe" >>
    /\ Len(cmd.args) >= Len(tool_call.args)
    /\ \A i \in 1..Len(tool_call.args) :
          AllDigits(cmd.args[i]) /\ Reads(cmd.args[i]) = tool_call.args[i]

C24_NegativeRejected ==
    Called =>
        IF SomeNegative
        THEN /\ tool_pc = "raised"
             /\ tool_outcome = "ValueError"
             /\ commands = << >>
        ELSE /\ Len(commands) = 1
             /\ CarriesCoordinates(commands[1])

\* a swipe whose end alone is negative
C24_Witness ==
    /\ tool_call = Call2("custom_swipe", << 360, 12, 0, 0 - 1 >>)
    /\ tool_outcome = "ValueError"
    /\ commands = << >>

(***************************************************************************)
(* C25: the scaling state changes only in the step in which a pass         *)
(* returns its pair; every other step (a reader, apply_scaling, a lookup,  *)
(* navigation, the settle delay, a point lookup that is not the last, a    *)
(* failure exit) leaves it as it was, and apply_scaling called while a     *)
(* pass is suspended scales by the state from before that pass started.    *)
(***************************************************************************)
InFlight(p) == pc[p] \in {"home", "sleep", "locate"}

Installs(p) == pc[p] # "returned" /\ pc'[p] = "returned"

ScaledUnder(st, coords) ==
    << ScaleCoord(coords[1], st.scale_x), ScaleCoord(coords[2], st.scale_y) >>

OwnFrame(p) ==
    SweepFrom(EmptyFrame,
              SubSeq(calibration_points[p], 1, Len(answers[p])), answers[p])

Private(p) ==
    /\ pc[p] = "locate" =>
          /\ x_ratios[p] = OwnFrame(p).x_ratios
          /\ y_ratios[p] = OwnFrame(p).y_ratios
          /\ successful_points[p] = OwnFrame(p).successful_points
    /\ pc[p] = "returned" =>
          result[p] = ScaleFor(calibration_points[p], answers[p])

C26_LastFinisherWins ==
    /\ [](\A p \in Passes : Private(p))
    /\ [][ /\ \A p \in Passes :
                 Installs(p) =>
                     /\ scaling_x' = result'[p].sx
                     /\ scaling_y' = result'[p].sy
                     /\ calibrated'
           /\ (ScalingState' # ScalingState => \E q \in Passes : Installs(q)) ]_vars

\* both passes have returned, with different pairs, and the state is the
\* pair of p2 although p1 has installed its own
C26_Witness ==
    /\ \A p \in Passes : pc[p] = "returned"
    /\ PairOf("p1") # PairOf("p2")
    /\ ScalingState = PairOf("p2")

(***************************************************************************)
(* C27: calibrated never goes from true to false: whenever a reader has    *)
(* seen is_calibrated() true it is true now, no step of a calibration, of  *)
(* a scaling call or of a lookup clears it, and the step in which a        *)
(* recalibration fails leaves the scaling state as it was.                 *)
(***************************************************************************)
Fails(p) == pc[p] # "raised" /\ pc'[p] = "raised"

SweptAll(p) ==
    /\ pc[p] \in {"returned", "raised"}
    /\ result[p] # Raised("RuntimeError")

C28_IndependentOfState ==
    \A p \in Sequential :
        /\ SweptAll(p) => result[p] = ScaleFor(calibration_points[p], answers[p])
        /\ pc[p] = "returned" => ScalingState = PairOf(p)

\* a recalibration has returned a pair that differs on both axes from the
\* calibrated state it started from
C28_Witness ==
    \E p \in Sequential :
        /\ pc[p] = "returned"
        /\ pre[p].calibrated
        /\ pre[p].scale_x # result[p].sx /\ pre[p].scale_x # One
        /\ pre[p].scale_y # result[p].sy /\ pre[p].scale_y # One
        /\ ScalingState = PairOf(p)

LookupReturned == element_info # NoInfo /\ ~element_info.raised

TapIssued == adb_tap # NoTap

C30_TapAfterLookup ==
    /\ tap_pc \in {"idle", "screenshot"} => ~TapIssued /\ ~LookupReturned
    /\ TapIssued =>
          /\ LookupReturned
          /\ adb_tap = << element_info.x, element_info.y >>
    /\ (tap_pc = "raised" /\ ~LookupReturned) =>
          /\ ~TapIssued
          /\ tap_result \in {"RuntimeError", "ValueError"}
    /\ tap_pc = "returned" => TapIssued

\* the lookup has answered (150, 250) and the tap on (150, 250) is awaited
C30_Witness ==
    /\ tap_pc = "tap"
    /\ element_info = Located(150, 250, 9)
    /\ adb_tap = << 150, 250 >>
====
